---- MODULE Spec2Model ----
(***************************************************************************)
(* Model of the social-media scraper pipelines of                          *)
(* src/dockerize/agent/facebook_scraper.py and instagram_scraper.py:       *)
(* the LangGraph stage sequence initialize -> fetch_posts -> process_posts *)
(* -> process_comments -> save_to_db -> finalize, the pandas normalisation *)
(* of the raw API records, and the staged delete-then-insert merge into    *)
(* the PostgreSQL tables social_media_scraped_data and                     *)
(* social_media_scraped_data_comments.                                     *)
(*                                                                         *)
(* save_to_database is split at its database transactions (to_sql, the     *)
(* delete transaction, the insert+drop transaction), which are the atomic  *)
(* steps other invocations can interleave with.                            *)
(***************************************************************************)
EXTENDS Integers, Sequences, FiniteSets, Bags, TLC

VARIABLES
    posts_tbl,      \* bag of rows of social_media_scraped_data
    comments_tbl,   \* bag of rows of social_media_scraped_data_comments
    posts_stg,      \* social_media_scraped_data_stg: [exists, rows]
    comments_stg,   \* social_media_scraped_data_comments_stg: [exists, rows]
    pc,             \* per invocation: the graph node (or save step) to run next
    platform,       \* per invocation: which module's graph was invoked
    ctx,            \* per invocation: the LangGraph state dict (key -> value)
    trace,          \* per invocation: the status each stage of this run returned
    raised,         \* per invocation: the save step whose exception was caught
    pre,            \* per invocation: the store as it was when save_to_db was entered
    ingested,       \* (platform, post_id) pairs some insert transaction has committed
    runs,           \* number of graph invocations started so far
    logs            \* the append-only report tables: [sentiment, competitor], sequences of rows

vars == <<posts_tbl, comments_tbl, posts_stg, comments_stg, pc, platform, ctx,
          trace, raised, pre, ingested, runs, logs>>

----------------------------------------------------------------------------
(* Bounds of the model *)

\* graph invocations per behaviour
MaxRuns == 2

(* Value sets the external APIs draw from *)
Procs == {"A", "B"}
Platforms == {"facebook", "instagram"}
PostIds == {"p1", "p2"}
Captions == {"a", "b"}
CommentIds == {"c1"}

----------------------------------------------------------------------------
(* pandas / SQL missing-value markers: None, NaN and NULL *)
NullStr == "<NULL>"
NaN == -1

(* dict.get(key, default) *)
Get(d, k, default) == IF k \in DOMAIN d THEN d[k] ELSE default

(* the graph's state update: keys of the update overwrite, all others are kept *)
Merge(d, upd) ==
    [k \in (DOMAIN d) \cup (DOMAIN upd) |-> IF k \in DOMAIN upd THEN upd[k] ELSE d[k]]

EmptyDict == [k \in {} |-> NullStr]

Min(a, b) == IF a <= b THEN a ELSE b

(* seq[:n] *)
Take(s, n) == SubSeq(s, 1, Min(n, Len(s)))

(* pd.DataFrame(list_of_dicts).columns: the union of the records' keys *)
Columns(records) == UNION {DOMAIN records[i] : i \in DOMAIN records}

(* a string cell of that frame: NaN where the record has no such key *)
Cell(rec, col) == IF col \in DOMAIN rec THEN rec[col] ELSE NullStr

----------------------------------------------------------------------------
(* Normaliser, facebook_scraper.py *)

FbLikesCount(post) ==
    IF "likes" \in DOMAIN post
    THEN Get(Get(post.likes, "summary", EmptyDict), "total_count", 0)
    ELSE 0

FbCommentsCount(post) ==
    IF "comments" \in DOMAIN post
    THEN Get(Get(post.comments, "summary", EmptyDict), "total_count", 0)
    ELSE 0

FbSharesCount(post) ==
    IF "shares" \in DOMAIN post THEN Get(post.shares, "count", 0) ELSE 0

(* df_main[[...]] , df_main["likes"], df_main["comments"] raise KeyError when no
   record of the batch carries the column *)
FbPostsRaises(batch) ==
    ~ ({"id", "message", "created_time", "shares", "likes", "comments"} \subseteq Columns(batch))

(* user_id and agent_id are assigned to the still empty frame, so the rows that
   post_url then creates hold NaN in both *)
FbPostRow(post) ==
    [ user_id        |-> NaN,
      agent_id       |-> NaN,
      post_url       |-> "https://www.facebook.com/me/posts/" \o post.id,
      platform       |-> "facebook",
      post_id        |-> post.id,
      post_caption   |-> IF "message" \in DOMAIN post THEN post.message ELSE "",
      time_stamp     |-> Cell(post, "created_time"),
      total_likes    |-> FbLikesCount(post),
      total_comments |-> FbCommentsCount(post),
      total_shares   |-> FbSharesCount(post) ]

FbCommentRow(post, c) ==
    [ post_id         |-> post.id,
      comment_id      |-> Cell(c, "id"),
      comment_message |-> Cell(c, "message"),
      comment_time    |-> Cell(c, "created_time"),
      commenter       |-> IF "from" \in DOMAIN c THEN Cell(c["from"], "name") ELSE NullStr ]

FbRawComments(post) ==
    IF "comments" \in DOMAIN post THEN Get(post.comments, "data", <<>>) ELSE <<>>

----------------------------------------------------------------------------
(* Normaliser, instagram_scraper.py *)

IgCount(batch, post, col) ==
    IF col \in Columns(batch) THEN (IF col \in DOMAIN post THEN post[col] ELSE NaN) ELSE 0

IgPostRow(batch, post) ==
    [ user_id        |-> NaN,
      agent_id       |-> NaN,
      post_url       |-> "https://www.instagram.com/p/" \o post.id,
      platform       |-> "instagram",
      post_id        |-> post.id,
      post_caption   |-> IF "caption" \in DOMAIN post THEN post.caption ELSE "",
      time_stamp     |-> IF "timestamp" \in Columns(batch) THEN Cell(post, "timestamp") ELSE "",
      total_likes    |-> IgCount(batch, post, "like_count"),
      total_comments |-> IgCount(batch, post, "comments_count"),
      total_shares   |-> 0 ]

IgCommentRow(post, c) ==
    [ post_id         |-> post.id,
      comment_id      |-> Cell(c, "id"),
      comment_message |-> Cell(c, "text"),
      comment_time    |-> Cell(c, "timestamp"),
      commenter       |-> Cell(c, "username") ]

IgRawComments(post) == Get(post, "comments_data", <<>>)

----------------------------------------------------------------------------
(* Both platforms *)

RECURSIVE Flatten(_)
Flatten(ss) == IF ss = <<>> THEN <<>> ELSE Head(ss) \o Flatten(Tail(ss))

(* the rows process_posts_data builds from a non-empty batch *)
PostRows(plat, batch) ==
    IF plat = "facebook"
    THEN [i \in DOMAIN batch |-> FbPostRow(batch[i])]
    ELSE [i \in DOMAIN batch |-> IgPostRow(batch, batch[i])]

(* the per-post comment loop of process_comments_data; only facebook's slices
   by comment_limit *)
PostCommentRows(plat, post, comment_limit) ==
    IF plat = "facebook"
    THEN LET cs == Take(FbRawComments(post), comment_limit)
         IN  [j \in DOMAIN cs |-> FbCommentRow(post, cs[j])]
    ELSE LET cs == IgRawComments(post)
         IN  [j \in DOMAIN cs |-> IgCommentRow(post, cs[j])]

CommentRows(plat, batch, comment_limit) ==
    Flatten([i \in DOMAIN batch |-> PostCommentRows(plat, batch[i], comment_limit)])

----------------------------------------------------------------------------
(* What the platform APIs can answer (the external fetch adapters) *)

SeqsUpTo(S, n) == UNION {[1..k -> S] : k \in 0..n}

DistinctIds(batch) == \A i, j \in DOMAIN batch : i # j => batch[i].id # batch[j].id

(* a Graph API comment; "id" may be missing (the code reads it with .get) *)
FbRawCommentSet ==
    {[id |-> c, message |-> "m", created_time |-> "t", from |-> [name |-> "u"]] : c \in CommentIds}
    \cup {[message |-> "m", created_time |-> "t", from |-> [name |-> "u"]]}

(* a Graph API post; the API leaves "shares" out of a post nobody shared *)
FbRawPostSet(comment_limit) ==
    LET CommentLists == SeqsUpTo(FbRawCommentSet, comment_limit)
        Full == {[id |-> i, message |-> m, created_time |-> "t",
                  likes |-> [summary |-> [total_count |-> 1]],
                  comments |-> [data |-> cs, summary |-> [total_count |-> Len(cs)]],
                  shares |-> [count |-> 1]] :
                    i \in PostIds, m \in Captions, cs \in CommentLists}
        Unshared == {[id |-> i, message |-> "a", created_time |-> "t",
                      likes |-> [summary |-> [total_count |-> 1]],
                      comments |-> [data |-> cs, summary |-> [total_count |-> Len(cs)]]] :
                        i \in PostIds, cs \in CommentLists}
    IN  Full \cup Unshared

IgRawCommentSet ==
    {[id |-> c, username |-> "u", text |-> "m", timestamp |-> "t"] : c \in CommentIds}
    \cup {[username |-> "u", text |-> "m", timestamp |-> "t"]}

(* a media record of me/media, before the fetch stage attaches comments_data *)
IgRawMediaSet ==
    {[id |-> i, caption |-> m, like_count |-> 1, comments_count |-> 1, timestamp |-> "t"] :
        i \in PostIds, m \in Captions}

(* me/posts?limit=post_limit answers at most post_limit posts, or a body
   without "data"; the model lets a post carry at most comment_limit comments *)
FbResponses(post_limit, comment_limit) ==
    {[data |-> b] : b \in {b \in SeqsUpTo(FbRawPostSet(comment_limit), post_limit) : DistinctIds(b)}}
    \cup {[paging |-> "next"]}

(* me/media?limit=post_limit, then <media_id>/comments?limit=comment_limit per media *)
IgMediaLists(post_limit) ==
    {b \in SeqsUpTo(IgRawMediaSet, post_limit) : DistinctIds(b)}

IgCommentsResponses(comment_limit) ==
    SeqsUpTo(IgRawCommentSet, comment_limit)

(* the caller's input record *)
Inputs == {[post_limit |-> 1, comment_limit |-> 1]}

----------------------------------------------------------------------------
(* The graph nodes as functions from the state dict (and the outcome of their
   external calls) to the partial update they return *)

InitializeUpdate(state, connected) ==
    [ post_limit    |-> Get(state, "post_limit", 5),
      comment_limit |-> Get(state, "comment_limit", 5),
      access_token  |-> "token",
      db_engine     |-> IF connected THEN "engine" ELSE NullStr,
      status        |-> IF connected THEN "initialized" ELSE "error",
      message       |-> IF connected THEN "Scraper initialized successfully"
                        ELSE "Database connection failed: OperationalError" ]

(* mutant of FetchError: the error record carries a batch *)
FetchErrorWithData ==
    [ raw_posts_data |-> [data |-> << [id |-> "p1", caption |-> "a", message |-> "a",
                                       created_time |-> "t", timestamp |-> "t",
                                       likes |-> [summary |-> [total_count |-> 1]],
                                       comments |-> [data |-> <<>>],
                                       shares |-> [count |-> 1]] >>],
      status         |-> "error",
      message        |-> "Failed to fetch posts: HTTPError" ]

FetchError ==
    [ raw_posts_data |-> EmptyDict,
      status         |-> "error",
      message        |-> "Failed to fetch posts: HTTPError" ]

FetchOk(json) ==
    [ raw_posts_data |-> json,
      status         |-> "posts_fetched",
      message        |-> "Successfully fetched " \o ToString(Len(Get(json, "data", <<>>))) \o " posts" ]

(* mutant of NoRawData: a response with zero records counts as no data *)
NoRawDataOrNoRecords(state) ==
    LET raw == Get(state, "raw_posts_data", EmptyDict)
    IN  DOMAIN raw = {} \/ "data" \notin DOMAIN raw \/ raw["data"] = <<>>

(* not state.get("raw_posts_data") or "data" not in state["raw_posts_data"] *)
NoRawData(state) ==
    LET raw == Get(state, "raw_posts_data", EmptyDict)
    IN  DOMAIN raw = {} \/ "data" \notin DOMAIN raw

PostsRaises(plat, batch) ==
    IF plat = "facebook" THEN FbPostsRaises(batch) ELSE "id" \notin Columns(batch)

(* mutant of ProcessPostsUpdate: the except clause counts the fetched posts *)
ProcessPostsCountsBatch(plat, state) ==
    IF NoRawData(state)
    THEN [ processed_posts_df |-> <<>>,
           status             |-> "error",
           message            |-> "No posts data to process" ]
    ELSE LET batch == state["raw_posts_data"]["data"]
         IN  IF batch = <<>>
             THEN [ processed_posts_df |-> <<>>,
                    posts_scraped      |-> 0,
                    posts_data         |-> <<>>,
                    status             |-> "success",
                    message            |-> "No posts found" ]
             ELSE IF PostsRaises(plat, batch)
             THEN [ processed_posts_df |-> <<>>,
                    posts_scraped      |-> Len(batch),
                    posts_data         |-> <<>>,
                    status             |-> "error",
                    message            |-> "Failed to process posts: KeyError" ]
             ELSE LET rows == PostRows(plat, batch)
                  IN  [ processed_posts_df |-> rows,
                        posts_scraped      |-> Len(rows),
                        posts_data         |-> rows,
                        status             |-> "posts_processed",
                        message            |-> "Successfully processed " \o ToString(Len(rows)) \o " posts" ]

ProcessPostsUpdate(plat, state) ==
    IF NoRawData(state)
    THEN [ processed_posts_df |-> <<>>,
           status             |-> "error",
           message            |-> "No posts data to process" ]
    ELSE LET batch == state["raw_posts_data"]["data"]
         IN  IF batch = <<>>
             THEN [ processed_posts_df |-> <<>>,
                    posts_scraped      |-> 0,
                    posts_data         |-> <<>>,
                    status             |-> "success",
                    message            |-> "No posts found" ]
             ELSE IF PostsRaises(plat, batch)
             THEN [ processed_posts_df |-> <<>>,
                    posts_scraped      |-> 0,
                    posts_data         |-> <<>>,
                    status             |-> "error",
                    message            |-> "Failed to process posts: KeyError" ]
             ELSE LET rows == PostRows(plat, batch)
                  IN  [ processed_posts_df |-> rows,
                        posts_scraped      |-> Len(rows),
                        posts_data         |-> rows,
                        status             |-> "posts_processed",
                        message            |-> "Successfully processed " \o ToString(Len(rows)) \o " posts" ]

(* post["id"] raises KeyError for a record without id *)
CommentsRaises(batch) == \E i \in DOMAIN batch : "id" \notin DOMAIN batch[i]

ProcessCommentsUpdate(plat, state) ==
    IF NoRawData(state)
    THEN [ processed_comments_df |-> <<>>,
           comments_scraped      |-> 0,
           comments_data         |-> <<>>,
           status                |-> "error",
           message               |-> "No posts data available for comment processing" ]
    ELSE LET batch == state["raw_posts_data"]["data"]
         IN  IF CommentsRaises(batch)
             THEN [ processed_comments_df |-> <<>>,
                    comments_scraped      |-> 0,
                    comments_data         |-> <<>>,
                    status                |-> "error",
                    message               |-> "Failed to process comments: KeyError" ]
             ELSE LET rows == CommentRows(plat, batch, state["comment_limit"])
                  IN  [ processed_comments_df |-> rows,
                        comments_scraped      |-> Len(rows),
                        comments_data         |-> rows,
                        status                |-> "comments_processed",
                        message               |-> "Successfully processed " \o ToString(Len(rows)) \o " comments" ]

SaveNoEngineUpdate ==
    [ status |-> "error", message |-> "Database connection not available" ]

(* mutant of SaveErrorUpdate: the except clause reports success *)
SaveErrorAsSuccess ==
    [ status |-> "success", message |-> "Failed to save to database: SQLAlchemyError" ]

SaveErrorUpdate ==
    [ status |-> "error", message |-> "Failed to save to database: SQLAlchemyError" ]

(* mutant of SaveSuccessUpdate: the success return sets the message only *)
SaveSuccessKeepsStatus(state) ==
    [ status  |-> Get(state, "status", "completed"),
      message |-> "Successfully saved " \o ToString(Get(state, "posts_scraped", 0))
                  \o " posts and " \o ToString(Get(state, "comments_scraped", 0))
                  \o " comments to database" ]

SaveSuccessUpdate(state) ==
    [ status  |-> "success",
      message |-> "Successfully saved " \o ToString(Get(state, "posts_scraped", 0))
                  \o " posts and " \o ToString(Get(state, "comments_scraped", 0))
                  \o " comments to database" ]

(* mutant of FinalizeUpdate: the counts are not read from the state *)
FinalizeUpdateResets(state) ==
    [ posts_scraped    |-> 0,
      comments_scraped |-> 0,
      posts_data       |-> Get(state, "posts_data", <<>>),
      comments_data    |-> Get(state, "comments_data", <<>>),
      status           |-> Get(state, "status", "completed"),
      message          |-> Get(state, "message", "Scraping completed") ]

FinalizeUpdate(state) ==
    [ posts_scraped    |-> Get(state, "posts_scraped", 0),
      comments_scraped |-> Get(state, "comments_scraped", 0),
      posts_data       |-> Get(state, "posts_data", <<>>),
      comments_data    |-> Get(state, "comments_data", <<>>),
      status           |-> Get(state, "status", "completed"),
      message          |-> Get(state, "message", "Scraping completed") ]

----------------------------------------------------------------------------
(* The store: tables are bags of rows *)

Range(s) == {s[i] : i \in DOMAIN s}

SeqToBag(s) == [r \in Range(s) |-> Cardinality({i \in DOMAIN s : s[i] = r})]

NoTable == [exists |-> FALSE, rows |-> EmptyBag]

(* mutant of ToSqlReplace: if_exists='append' onto what the posts staging
   table holds *)
ToSqlAppend(df) == [exists |-> TRUE, rows |-> posts_stg.rows (+) SeqToBag(df)]

(* DataFrame.to_sql(name, engine, if_exists='replace', index=False) *)
ToSqlReplace(df) == [exists |-> TRUE, rows |-> SeqToBag(df)]

(* SQL "=": never true of a NULL *)
SqlEq(a, b) == a # NullStr /\ b # NullStr /\ a = b

(* mutant of PostsMatch: the delete matches on every column instead of post_id *)
PostsMatchWholeRow(r, s) == r = s

(* ... WHERE social_media_scraped_data.post_id = social_media_scraped_data_stg.post_id *)
PostsMatch(r, s) == SqlEq(r.post_id, s.post_id)

(* ... WHERE the post_id columns are equal AND the comment_id columns are equal *)
CommentsMatch(r, s) == SqlEq(r.post_id, s.post_id) /\ SqlEq(r.comment_id, s.comment_id)

(* mutant of DeletePosts: the delete statement removes nothing *)
DeletePostsNothing(dest, stg) == dest

(* DELETE FROM social_media_scraped_data USING social_media_scraped_data_stg
   WHERE the post_id columns are equal: every matching row goes, whole *)
DeletePosts(dest, stg) ==
    LET kept == {r \in DOMAIN dest : ~ \E s \in DOMAIN stg : PostsMatch(r, s)}
    IN  [r \in kept |-> dest[r]]

(* DELETE FROM social_media_scraped_data_comments USING ..._comments_stg
   WHERE the post_id columns and the comment_id columns are equal *)
DeleteComments(dest, stg) ==
    LET kept == {r \in DOMAIN dest : ~ \E s \in DOMAIN stg : CommentsMatch(r, s)}
    IN  [r \in kept |-> dest[r]]

(* INSERT INTO dest (cols) SELECT cols FROM stg *)
InsertSelect(dest, stg) == dest (+) stg

Store == [posts |-> posts_tbl, comments |-> comments_tbl,
          posts_stg |-> posts_stg, comments_stg |-> comments_stg]

----------------------------------------------------------------------------
(* The state machine *)

(* social_media_sentiment_analysis_logs and social_media_competitor_analysis_logs *)
EmptyLogs == [sentiment |-> <<>>, competitor |-> <<>>]

EmptyStore == [posts |-> EmptyBag, comments |-> EmptyBag,
               posts_stg |-> NoTable, comments_stg |-> NoTable]

Init ==
    /\ posts_tbl = EmptyBag
    /\ comments_tbl = EmptyBag
    /\ posts_stg = NoTable
    /\ comments_stg = NoTable
    /\ pc = [p \in Procs |-> "idle"]
    /\ platform = [p \in Procs |-> "facebook"]
    /\ ctx = [p \in Procs |-> EmptyDict]
    /\ trace = [p \in Procs |-> <<>>]
    /\ raised = [p \in Procs |-> "none"]
    /\ pre = [p \in Procs |-> EmptyStore]
    /\ ingested = {}
    /\ runs = 0
    /\ logs = EmptyLogs

(* mutant of StageReturn: a node that returns status error sends the run
   straight to finalize *)
StageReturnShortCircuit(p, stage, upd, next) ==
    /\ ctx' = [ctx EXCEPT ![p] = Merge(@, upd)]
    /\ trace' = [trace EXCEPT ![p] = Append(@, [stage |-> stage, status |-> upd.status])]
    /\ pc' = [pc EXCEPT ![p] = IF upd.status = "error" /\ stage # "finalize"
                                THEN "finalize" ELSE next]

(* a node returned `upd`: the graph merges it into the state and moves on *)
StageReturn(p, stage, upd, next) ==
    /\ ctx' = [ctx EXCEPT ![p] = Merge(@, upd)]
    /\ trace' = [trace EXCEPT ![p] = Append(@, [stage |-> stage, status |-> upd.status])]
    /\ pc' = [pc EXCEPT ![p] = next]

PostsDf(p) == Get(ctx[p], "processed_posts_df", <<>>)

CommentsDf(p) == Get(ctx[p], "processed_comments_df", <<>>)

PostKeys(rows) == {<<r.platform, r.post_id>> : r \in DOMAIN rows}

(* graph.invoke(input) of one of the two modules, and its first node *)
InitializeScraper(p) ==
    /\ pc[p] \in {"idle", "done"}
    /\ runs < MaxRuns
    /\ \E plat \in Platforms, input \in Inputs, connected \in BOOLEAN :
          /\ platform' = [platform EXCEPT ![p] = plat]
          /\ ctx' = [ctx EXCEPT ![p] = Merge(input, InitializeUpdate(input, connected))]
          /\ trace' = [trace EXCEPT ![p] =
                         << [stage |-> "initialize",
                             status |-> InitializeUpdate(input, connected).status] >>]
    /\ pc' = [pc EXCEPT ![p] = "fetch_posts"]
    /\ raised' = [raised EXCEPT ![p] = "none"]
    /\ pre' = [pre EXCEPT ![p] = EmptyStore]
    /\ runs' = runs + 1
    /\ UNCHANGED <<posts_tbl, comments_tbl, posts_stg, comments_stg, ingested, logs>>

FetchFacebookPosts(p) ==
    /\ pc[p] = "fetch_posts"
    /\ platform[p] = "facebook"
    /\ \/ \E json \in FbResponses(ctx[p]["post_limit"], ctx[p]["comment_limit"]) :
             StageReturn(p, "fetch_posts", FetchOk(json), "process_posts")
       \/ StageReturn(p, "fetch_posts", FetchError, "process_posts")
    /\ UNCHANGED <<posts_tbl, comments_tbl, posts_stg, comments_stg, platform,
                   raised, pre, ingested, runs, logs>>

FetchInstagramPosts(p) ==
    /\ pc[p] = "fetch_posts"
    /\ platform[p] = "instagram"
    /\ \/ \E media_list \in IgMediaLists(ctx[p]["post_limit"]) :
          \E comments \in [DOMAIN media_list -> IgCommentsResponses(ctx[p]["comment_limit"])] :
             LET with_comments ==
                   [i \in DOMAIN media_list |->
                       Merge(media_list[i], [comments_data |-> comments[i]])]
             IN  StageReturn(p, "fetch_posts", FetchOk([data |-> with_comments]), "process_posts")
       \/ StageReturn(p, "fetch_posts", FetchError, "process_posts")
    /\ UNCHANGED <<posts_tbl, comments_tbl, posts_stg, comments_stg, platform,
                   raised, pre, ingested, runs, logs>>

ProcessPostsData(p) ==
    /\ pc[p] = "process_posts"
    /\ StageReturn(p, "process_posts", ProcessPostsUpdate(platform[p], ctx[p]), "process_comments")
    /\ UNCHANGED <<posts_tbl, comments_tbl, posts_stg, comments_stg, platform,
                   raised, pre, ingested, runs, logs>>

ProcessCommentsData(p) ==
    /\ pc[p] = "process_comments"
    /\ StageReturn(p, "process_comments", ProcessCommentsUpdate(platform[p], ctx[p]), "save_to_db")
    /\ UNCHANGED <<posts_tbl, comments_tbl, posts_stg, comments_stg, platform,
                   raised, pre, ingested, runs, logs>>

(* mutant of SaveRaise: no except clause, the exception leaves the node and
   ends the run *)
SaveRaiseEscapes(p, step) ==
    /\ raised' = [raised EXCEPT ![p] = step]
    /\ pc' = [pc EXCEPT ![p] = "crashed"]
    /\ UNCHANGED <<ctx, trace>>

(* mutant of SaveRaise: a failure of the posts block is caught inside the
   block, and the function goes on to the comments block *)
SaveRaisePostsContinue(p, step) ==
    /\ raised' = [raised EXCEPT ![p] = step]
    /\ IF step \in {"posts_to_sql", "posts_delete", "posts_insert"}
       THEN /\ pc' = [pc EXCEPT ![p] = "save_comments"]
            /\ UNCHANGED <<ctx, trace>>
       ELSE StageReturn(p, "save_to_db", SaveErrorUpdate, "finalize")

(* the except clause of save_to_database: the step `step` raised *)
SaveRaise(p, step) ==
    /\ raised' = [raised EXCEPT ![p] = step]
    /\ StageReturn(p, "save_to_db", SaveErrorUpdate, "finalize")

(* mutant of SaveNoEngine: no engine check, the posts frame is staged anyway *)
SaveNoEngineStages(p) ==
    /\ pc[p] = "save_to_db"
    /\ Get(ctx[p], "db_engine", NullStr) = NullStr
    /\ pre' = [pre EXCEPT ![p] = Store]
    /\ posts_stg' = ToSqlReplace(PostsDf(p))
    /\ StageReturn(p, "save_to_db", SaveNoEngineUpdate, "finalize")
    /\ UNCHANGED <<posts_tbl, comments_tbl, comments_stg, platform,
                   raised, ingested, runs, logs>>

(* save_to_database without an engine *)
SaveNoEngine(p) ==
    /\ pc[p] = "save_to_db"
    /\ Get(ctx[p], "db_engine", NullStr) = NullStr
    /\ pre' = [pre EXCEPT ![p] = Store]
    /\ StageReturn(p, "save_to_db", SaveNoEngineUpdate, "finalize")
    /\ UNCHANGED <<posts_tbl, comments_tbl, posts_stg, comments_stg, platform,
                   raised, ingested, runs, logs>>

(* mutant of SavePostsSkip: no emptiness test, the empty frame is staged *)
SavePostsStageEmpty(p) ==
    /\ pc[p] = "save_to_db"
    /\ Get(ctx[p], "db_engine", NullStr) # NullStr
    /\ PostsDf(p) = <<>>
    /\ pre' = [pre EXCEPT ![p] = Store]
    /\ posts_stg' = ToSqlReplace(PostsDf(p))
    /\ pc' = [pc EXCEPT ![p] = "posts_delete"]
    /\ UNCHANGED <<posts_tbl, comments_tbl, comments_stg, platform, ctx,
                   trace, raised, ingested, runs, logs>>

(* processed_posts_df is empty: the posts block is skipped *)
SavePostsSkip(p) ==
    /\ pc[p] = "save_to_db"
    /\ Get(ctx[p], "db_engine", NullStr) # NullStr
    /\ PostsDf(p) = <<>>
    /\ pre' = [pre EXCEPT ![p] = Store]
    /\ pc' = [pc EXCEPT ![p] = "save_comments"]
    /\ UNCHANGED <<posts_tbl, comments_tbl, posts_stg, comments_stg, platform, ctx,
                   trace, raised, ingested, runs, logs>>

SavePostsToSql(p) ==
    /\ pc[p] = "save_to_db"
    /\ Get(ctx[p], "db_engine", NullStr) # NullStr
    /\ PostsDf(p) # <<>>
    /\ pre' = [pre EXCEPT ![p] = Store]
    /\ \/ /\ posts_stg' = ToSqlReplace(PostsDf(p))
          /\ pc' = [pc EXCEPT ![p] = "posts_delete"]
          /\ UNCHANGED <<ctx, trace, raised>>
       \/ /\ SaveRaise(p, "posts_to_sql")
          /\ UNCHANGED posts_stg
    /\ UNCHANGED <<posts_tbl, comments_tbl, comments_stg, platform, ingested, runs, logs>>

(* mutant of SavePostsDelete: a failing delete transaction is not rolled back *)
SavePostsDeleteNoRollback(p) ==
    /\ pc[p] = "posts_delete"
    /\ \/ /\ posts_stg.exists
          /\ posts_tbl' = DeletePosts(posts_tbl, posts_stg.rows)
          /\ pc' = [pc EXCEPT ![p] = "posts_insert"]
          /\ UNCHANGED <<ctx, trace, raised>>
       \/ /\ SaveRaise(p, "posts_delete")
          /\ posts_tbl' = DeletePosts(posts_tbl, posts_stg.rows)
    /\ UNCHANGED <<comments_tbl, posts_stg, comments_stg, platform, pre, ingested, runs, logs>>

(* the delete transaction; it fails without the staging table, and it can fail
   before its commit, which rolls it back *)
SavePostsDelete(p) ==
    /\ pc[p] = "posts_delete"
    /\ \/ /\ posts_stg.exists
          /\ posts_tbl' = DeletePosts(posts_tbl, posts_stg.rows)
          /\ pc' = [pc EXCEPT ![p] = "posts_insert"]
          /\ UNCHANGED <<ctx, trace, raised>>
       \/ /\ SaveRaise(p, "posts_delete")
          /\ UNCHANGED posts_tbl
    /\ UNCHANGED <<comments_tbl, posts_stg, comments_stg, platform, pre, ingested, runs, logs>>

(* mutant of SavePostsInsert: the insert is committed on its own, so a failing
   DROP TABLE leaves the inserted rows *)
SavePostsInsertAutocommit(p) ==
    /\ pc[p] = "posts_insert"
    /\ \/ /\ posts_stg.exists
          /\ posts_tbl' = InsertSelect(posts_tbl, posts_stg.rows)
          /\ posts_stg' = NoTable
          /\ ingested' = ingested \cup PostKeys(posts_stg.rows)
          /\ pc' = [pc EXCEPT ![p] = "save_comments"]
          /\ UNCHANGED <<ctx, trace, raised>>
       \/ /\ SaveRaise(p, "posts_insert")
          /\ posts_stg.exists
          /\ posts_tbl' = InsertSelect(posts_tbl, posts_stg.rows)
          /\ UNCHANGED <<posts_stg, ingested>>
    /\ UNCHANGED <<comments_tbl, comments_stg, platform, pre, runs, logs>>

(* the insert and the DROP TABLE of the staging table, one transaction *)
SavePostsInsert(p) ==
    /\ pc[p] = "posts_insert"
    /\ \/ /\ posts_stg.exists
          /\ posts_tbl' = InsertSelect(posts_tbl, posts_stg.rows)
          /\ posts_stg' = NoTable
          /\ ingested' = ingested \cup PostKeys(posts_stg.rows)
          /\ pc' = [pc EXCEPT ![p] = "save_comments"]
          /\ UNCHANGED <<ctx, trace, raised>>
       \/ /\ SaveRaise(p, "posts_insert")
          /\ UNCHANGED <<posts_tbl, posts_stg, ingested>>
    /\ UNCHANGED <<comments_tbl, comments_stg, platform, pre, runs, logs>>

(* processed_comments_df is empty: the comments block is skipped and the
   function returns its success record *)
SaveCommentsSkip(p) ==
    /\ pc[p] = "save_comments"
    /\ CommentsDf(p) = <<>>
    /\ StageReturn(p, "save_to_db", SaveSuccessUpdate(ctx[p]), "finalize")
    /\ UNCHANGED <<posts_tbl, comments_tbl, posts_stg, comments_stg, platform,
                   raised, pre, ingested, runs, logs>>

SaveCommentsToSql(p) ==
    /\ pc[p] = "save_comments"
    /\ CommentsDf(p) # <<>>
    /\ \/ /\ comments_stg' = ToSqlReplace(CommentsDf(p))
          /\ pc' = [pc EXCEPT ![p] = "comments_delete"]
          /\ UNCHANGED <<ctx, trace, raised>>
       \/ /\ SaveRaise(p, "comments_to_sql")
          /\ UNCHANGED comments_stg
    /\ UNCHANGED <<posts_tbl, comments_tbl, posts_stg, platform, pre, ingested, runs, logs>>

(* mutant of SaveCommentsDelete: a failing comments delete also undoes the
   posts merge of the run *)
SaveCommentsDeleteUndoesPosts(p) ==
    /\ pc[p] = "comments_delete"
    /\ \/ /\ comments_stg.exists
          /\ comments_tbl' = DeleteComments(comments_tbl, comments_stg.rows)
          /\ pc' = [pc EXCEPT ![p] = "comments_insert"]
          /\ UNCHANGED <<ctx, trace, raised, posts_tbl>>
       \/ /\ SaveRaise(p, "comments_delete")
          /\ posts_tbl' = pre[p].posts
          /\ UNCHANGED comments_tbl
    /\ UNCHANGED <<posts_stg, comments_stg, platform, pre, ingested, runs, logs>>

SaveCommentsDelete(p) ==
    /\ pc[p] = "comments_delete"
    /\ \/ /\ comments_stg.exists
          /\ comments_tbl' = DeleteComments(comments_tbl, comments_stg.rows)
          /\ pc' = [pc EXCEPT ![p] = "comments_insert"]
          /\ UNCHANGED <<ctx, trace, raised>>
       \/ /\ SaveRaise(p, "comments_delete")
          /\ UNCHANGED comments_tbl
    /\ UNCHANGED <<posts_tbl, posts_stg, comments_stg, platform, pre, ingested, runs, logs>>

(* the insert and the DROP TABLE, one transaction, then the success record *)
SaveCommentsInsert(p) ==
    /\ pc[p] = "comments_insert"
    /\ \/ /\ comments_stg.exists
          /\ comments_tbl' = InsertSelect(comments_tbl, comments_stg.rows)
          /\ comments_stg' = NoTable
          /\ StageReturn(p, "save_to_db", SaveSuccessUpdate(ctx[p]), "finalize")
          /\ UNCHANGED raised
       \/ /\ SaveRaise(p, "comments_insert")
          /\ UNCHANGED <<comments_tbl, comments_stg>>
    /\ UNCHANGED <<posts_tbl, posts_stg, platform, pre, ingested, runs, logs>>

FinalizeResults(p) ==
    /\ pc[p] = "finalize"
    /\ StageReturn(p, "finalize", FinalizeUpdate(ctx[p]), "done")
    /\ UNCHANGED <<posts_tbl, comments_tbl, posts_stg, comments_stg, platform,
                   raised, pre, ingested, runs, logs>>

(* the output schema ScraperOutput filters the final state *)
OutputKeys == {"posts_scraped", "comments_scraped", "posts_data", "comments_data",
               "status", "message"}

Output(p) == [k \in OutputKeys \cap DOMAIN ctx[p] |-> ctx[p][k]]

Step(p) ==
    \/ InitializeScraper(p)
    \/ FetchFacebookPosts(p)
    \/ FetchInstagramPosts(p)
    \/ ProcessPostsData(p)
    \/ ProcessCommentsData(p)
    \/ SaveNoEngine(p)
    \/ SavePostsSkip(p)
    \/ SavePostsToSql(p)
    \/ SavePostsDelete(p)
    \/ SavePostsInsert(p)
    \/ SaveCommentsSkip(p)
    \/ SaveCommentsToSql(p)
    \/ SaveCommentsDelete(p)
    \/ SaveCommentsInsert(p)
    \/ FinalizeResults(p)

(* invocations of both pipelines running concurrently *)
Next == \E p \in Procs : Step(p)

Spec == Init /\ [][Next]_vars

(* one caller invoking the pipelines one after the other *)
NextSeq == Step("A")

SpecSeq == Init /\ [][NextSeq]_vars

(* the graph executor runs a node as soon as the previous one has returned,
   and every node returns *)
SpecSeqFair == SpecSeq /\ WF_vars(NextSeq)

----------------------------------------------------------------------------
(* Two facebook invocations that reach save_to_database at the same time, each
   with the state dict its first four nodes built from a response of up to two
   posts *)

MergeInput == [post_limit |-> 2, comment_limit |-> 1]

(* the responses whose posts all carry shares and the caption `caption` *)
MergeResponses(caption) ==
    {r \in FbResponses(MergeInput.post_limit, MergeInput.comment_limit) :
        "data" \in DOMAIN r =>
            \A i \in DOMAIN r.data :
                "shares" \in DOMAIN r.data[i] /\ r.data[i].message = caption}

(* the state dict after initialize, fetch_posts, process_posts, process_comments *)
CtxAtSave(plat, input, json) ==
    LET s1 == Merge(Merge(input, InitializeUpdate(input, TRUE)), FetchOk(json))
        s2 == Merge(s1, ProcessPostsUpdate(plat, s1))
    IN  Merge(s2, ProcessCommentsUpdate(plat, s2))

(* the statuses those four nodes returned *)
TraceAtSave(plat, input, json) ==
    LET s1 == Merge(Merge(input, InitializeUpdate(input, TRUE)), FetchOk(json))
        s2 == Merge(s1, ProcessPostsUpdate(plat, s1))
    IN  << [stage |-> "initialize", status |-> InitializeUpdate(input, TRUE).status],
           [stage |-> "fetch_posts", status |-> FetchOk(json).status],
           [stage |-> "process_posts", status |-> ProcessPostsUpdate(plat, s1).status],
           [stage |-> "process_comments", status |-> ProcessCommentsUpdate(plat, s2).status] >>

InitMerge ==
    /\ posts_tbl = EmptyBag
    /\ comments_tbl = EmptyBag
    /\ posts_stg = NoTable
    /\ comments_stg = NoTable
    /\ pc = [p \in Procs |-> "save_to_db"]
    /\ platform = [p \in Procs |-> "facebook"]
    /\ \E ja \in MergeResponses("a"), jb \in MergeResponses("b") :
          /\ ctx = [p \in Procs |-> CtxAtSave("facebook", MergeInput, IF p = "A" THEN ja ELSE jb)]
          /\ trace = [p \in Procs |-> TraceAtSave("facebook", MergeInput, IF p = "A" THEN ja ELSE jb)]
    /\ raised = [p \in Procs |-> "none"]
    /\ pre = [p \in Procs |-> EmptyStore]
    /\ ingested = {}
    /\ runs = MaxRuns
    /\ logs = EmptyLogs

(* the steps of save_to_database with an engine, then finalize *)
MergeStep(p) ==
    \/ SavePostsSkip(p)
    \/ SavePostsToSql(p)
    \/ SavePostsDelete(p)
    \/ SavePostsInsert(p)
    \/ SaveCommentsSkip(p)
    \/ SaveCommentsToSql(p)
    \/ SaveCommentsDelete(p)
    \/ SaveCommentsInsert(p)
    \/ FinalizeResults(p)

NextMerge == \E p \in Procs : MergeStep(p)

SpecMerge == InitMerge /\ [][NextMerge]_vars

----------------------------------------------------------------------------
(* The normaliser alone: process_posts_data and process_comments_data applied
   to the state dict a fetch left behind.  The raw records are whatever the
   platform answered: optional fields may be missing from a post, and a post
   may carry more comments than comment_limit (facebook's request puts no limit
   on the nested comments; instagram's passes it to the API as `limit`). *)

NormLimits == 0..2

(* comment ids in the adapter's order, which is not the sorted order *)
NormIdLists == { <<>>, <<"c1">>, <<"c2", "c1">>, <<"c3", "c1", "c2">> }

Restrict(rec, keys) == [k \in keys \cap DOMAIN rec |-> rec[k]]

FbNormComments(ids) ==
    [j \in DOMAIN ids |->
        [id |-> ids[j], message |-> "m", created_time |-> "t", from |-> [name |-> "u"]]]

IgNormComments(ids) ==
    [j \in DOMAIN ids |-> [id |-> ids[j], username |-> "u", text |-> "m", timestamp |-> "t"]]

(* Graph API posts: message, shares, likes and comments are each optional *)
FbNormPosts ==
    { Restrict([id |-> i, message |-> "a", created_time |-> "t",
                likes |-> [summary |-> [total_count |-> 1]],
                comments |-> [data |-> FbNormComments(ids),
                              summary |-> [total_count |-> Len(ids)]],
                shares |-> [count |-> 1]],
               {"id", "created_time"} \cup opt) :
        i \in PostIds, ids \in NormIdLists,
        opt \in SUBSET {"message", "shares", "likes", "comments"} }

(* media records as the fetch stage leaves them: caption, like_count and
   comments_count are each optional, comments_data is always attached *)
IgNormPosts ==
    { Restrict([id |-> i, caption |-> "a", like_count |-> 1, comments_count |-> 1,
                timestamp |-> "t", comments_data |-> IgNormComments(ids)],
               {"id", "timestamp", "comments_data"} \cup opt) :
        i \in PostIds, ids \in NormIdLists,
        opt \in SUBSET {"caption", "like_count", "comments_count"} }

(* what the fetch stage returned: a batch of up to two posts, a body without
   "data" (facebook only), or its error record *)
NormFetchUpdates(plat) ==
    LET posts == IF plat = "facebook" THEN FbNormPosts ELSE IgNormPosts
        batches == {b \in SeqsUpTo(posts, 2) : DistinctIds(b)}
    IN  {FetchOk([data |-> b]) : b \in batches}
        \cup (IF plat = "facebook" THEN {FetchOk([paging |-> "next"])} ELSE {})
        \cup {FetchError}

InitNorm ==
    /\ posts_tbl = EmptyBag
    /\ comments_tbl = EmptyBag
    /\ posts_stg = NoTable
    /\ comments_stg = NoTable
    /\ pc = [p \in Procs |-> IF p = "A" THEN "process_posts" ELSE "idle"]
    /\ \E plat \in Platforms, limit \in NormLimits :
       \E fetched \in NormFetchUpdates(plat) :
          LET input == [post_limit |-> 2, comment_limit |-> limit]
          IN  /\ platform = [p \in Procs |-> IF p = "A" THEN plat ELSE "facebook"]
              /\ ctx = [p \in Procs |->
                           IF p = "A"
                           THEN Merge(Merge(input, InitializeUpdate(input, TRUE)), fetched)
                           ELSE EmptyDict]
              /\ trace = [p \in Procs |->
                             IF p = "A"
                             THEN << [stage |-> "initialize",
                                      status |-> InitializeUpdate(input, TRUE).status],
                                     [stage |-> "fetch_posts", status |-> fetched.status] >>
                             ELSE <<>>]
    /\ raised = [p \in Procs |-> "none"]
    /\ pre = [p \in Procs |-> EmptyStore]
    /\ ingested = {}
    /\ runs = 1
    /\ logs = EmptyLogs

NextNorm == ProcessPostsData("A") \/ ProcessCommentsData("A")

SpecNorm == InitNorm /\ [][NextNorm]_vars

----------------------------------------------------------------------------
(* The end-to-end scenario: one run with post_limit 2 and comment_limit 2 whose
   fetch answered two posts with five raw comments each, on an empty
   destination with a working database *)

ScenarioInput == [post_limit |-> 2, comment_limit |-> 2]

ScenarioIdOrders ==
    { <<"c1", "c2", "c3", "c4", "c5">>,
      <<"c5", "c4", "c3", "c2", "c1">>,
      <<"c3", "c1", "c5", "c2", "c4">> }

ScenarioPosts(plat) ==
    IF plat = "facebook"
    THEN { [id |-> i, message |-> m, created_time |-> "t",
            likes |-> [summary |-> [total_count |-> 1]],
            comments |-> [data |-> FbNormComments(ids), summary |-> [total_count |-> Len(ids)]],
            shares |-> [count |-> 1]] :
              i \in PostIds, m \in Captions, ids \in ScenarioIdOrders }
    ELSE { [id |-> i, caption |-> m, like_count |-> 1, comments_count |-> 1,
            timestamp |-> "t", comments_data |-> IgNormComments(ids)] :
              i \in PostIds, m \in Captions, ids \in ScenarioIdOrders }

ScenarioBatches(plat) ==
    {b \in [1..2 -> ScenarioPosts(plat)] : DistinctIds(b)}

InitScenario ==
    /\ posts_tbl = EmptyBag
    /\ comments_tbl = EmptyBag
    /\ posts_stg = NoTable
    /\ comments_stg = NoTable
    /\ pc = [p \in Procs |-> IF p = "A" THEN "process_posts" ELSE "idle"]
    /\ \E plat \in Platforms :
       \E b \in ScenarioBatches(plat) :
          LET fetched == FetchOk([data |-> b])
          IN  /\ platform = [p \in Procs |-> IF p = "A" THEN plat ELSE "facebook"]
              /\ ctx = [p \in Procs |->
                           IF p = "A"
                           THEN Merge(Merge(ScenarioInput,
                                            InitializeUpdate(ScenarioInput, TRUE)), fetched)
                           ELSE EmptyDict]
              /\ trace = [p \in Procs |->
                             IF p = "A"
                             THEN << [stage |-> "initialize",
                                      status |-> InitializeUpdate(ScenarioInput, TRUE).status],
                                     [stage |-> "fetch_posts", status |-> fetched.status] >>
                             ELSE <<>>]
    /\ raised = [p \in Procs |-> "none"]
    /\ pre = [p \in Procs |-> EmptyStore]
    /\ ingested = {}
    /\ runs = 1
    /\ logs = EmptyLogs

(* both row-sets are non-empty and there is an engine, so the skip branches of
   save_to_database are not taken *)
NextScenario ==
    \/ ProcessPostsData("A")
    \/ ProcessCommentsData("A")
    \/ SavePostsToSql("A")
    \/ SavePostsDelete("A")
    \/ SavePostsInsert("A")
    \/ SaveCommentsToSql("A")
    \/ SaveCommentsDelete("A")
    \/ SaveCommentsInsert("A")
    \/ FinalizeResults("A")

SpecScenario == InitScenario /\ [][NextScenario]_vars

----------------------------------------------------------------------------
(* The sentiment pipeline of instagram_sentimentAnalysis.py:
   initialize -> fetch_comments -> analyze_and_insert -> finalize.  It reads
   the instagram rows of social_media_scraped_data and appends one report row
   per post_id to social_media_sentiment_analysis_logs. *)

InitializeSentimentUpdate(connected) ==
    [ db_engine |-> IF connected THEN "engine" ELSE NullStr,
      status    |-> IF connected THEN "initialized" ELSE "error",
      message   |-> IF connected THEN "Connected to database"
                    ELSE "Database connection failed: OperationalError" ]

(* SELECT * FROM social_media_scraped_data WHERE platform = 'instagram' *)
SelectInstagram(tbl) ==
    [r \in {x \in DOMAIN tbl : x.platform = "instagram"} |-> tbl[r]]

FetchCommentsOk(df) ==
    [ comments_df |-> df,
      status      |-> "comments_fetched",
      message     |-> "Fetched " \o ToString(BagCardinality(df))
                      \o " comments from DB (platform=instagram)" ]

FetchCommentsError ==
    [ comments_df |-> EmptyBag,
      status      |-> "error",
      message     |-> "Failed to fetch comments: Exception" ]

(* df.groupby("post_id"): the group keys in sorted order *)
GroupKeys(df) ==
    SelectSeq(<<"p1", "p2">>, LAMBDA k : \E r \in DOMAIN df : r.post_id = k)

(* the report row built for one group *)
ReportRow(df, post_id) ==
    [ user_id      |-> 1,
      post_id      |-> post_id,
      post_url     |-> "https://www.instagram.com/p/" \o post_id,
      num_posts    |-> 1,
      num_comments |-> BagCardinality([r \in {x \in DOMAIN df : x.post_id = post_id} |-> df[r]]),
      output       |-> "report",
      notes        |-> NullStr,
      platform     |-> "instagram",
      created_at   |-> "now",
      updated_at   |-> "now" ]

Reports(df) == [i \in DOMAIN GroupKeys(df) |-> ReportRow(df, GroupKeys(df)[i])]

AnalyzeNoComments ==
    [ reports |-> <<>>, num_reports |-> 0, status |-> "success",
      message |-> "No comments to analyze" ]

AnalyzeOk(reports) ==
    [ reports |-> reports, num_reports |-> Len(reports), status |-> "success",
      message |-> "Inserted " \o ToString(Len(reports)) \o " sentiment reports into DB" ]

AnalyzeError ==
    [ reports |-> <<>>, num_reports |-> 0, status |-> "error",
      message |-> "Failed to analyze/insert: Exception" ]

FinalizeSentimentUpdate(state) ==
    [ num_reports |-> Get(state, "num_reports", 0),
      status      |-> Get(state, "status", "completed"),
      message     |-> Get(state, "message", "Sentiment analysis completed") ]

(* graph.invoke({}) and the node initialize *)
InitializeSentiment(p) ==
    /\ pc[p] \in {"idle", "sentiment_done"}
    /\ runs < MaxRuns
    /\ \E connected \in BOOLEAN :
          /\ ctx' = [ctx EXCEPT ![p] = InitializeSentimentUpdate(connected)]
          /\ trace' = [trace EXCEPT ![p] =
                         << [stage |-> "initialize",
                             status |-> InitializeSentimentUpdate(connected).status] >>]
    /\ pc' = [pc EXCEPT ![p] = "fetch_comments"]
    /\ runs' = runs + 1
    /\ UNCHANGED <<posts_tbl, comments_tbl, posts_stg, comments_stg, platform,
                   raised, pre, ingested, logs>>

(* pd.read_sql_query raises without an engine, and can fail with one *)
FetchCommentsFromDb(p) ==
    /\ pc[p] = "fetch_comments"
    /\ \/ /\ ctx[p]["db_engine"] # NullStr
          /\ StageReturn(p, "fetch_comments", FetchCommentsOk(SelectInstagram(posts_tbl)),
                         "analyze_and_insert")
       \/ StageReturn(p, "fetch_comments", FetchCommentsError, "analyze_and_insert")
    /\ UNCHANGED <<posts_tbl, comments_tbl, posts_stg, comments_stg, platform,
                   raised, pre, ingested, runs, logs>>

(* the loop over the groups: the report of each group is appended to the log
   table in its own to_sql call; analyze_sentiment or to_sql can raise at any
   group, after the reports of the groups before it were appended *)
AnalyzeAndInsertSentiment(p) ==
    /\ pc[p] = "analyze_and_insert"
    /\ LET df == ctx[p]["comments_df"]
       IN  IF df = EmptyBag
           THEN /\ StageReturn(p, "analyze_and_insert", AnalyzeNoComments, "finalize_sentiment")
                /\ UNCHANGED logs
           ELSE \/ /\ logs' = [logs EXCEPT !.sentiment = @ \o Reports(df)]
                   /\ StageReturn(p, "analyze_and_insert", AnalyzeOk(Reports(df)),
                                  "finalize_sentiment")
                \/ \E done \in 0..(Len(Reports(df)) - 1) :
                      /\ logs' = [logs EXCEPT !.sentiment = @ \o SubSeq(Reports(df), 1, done)]
                      /\ StageReturn(p, "analyze_and_insert", AnalyzeError, "finalize_sentiment")
    /\ UNCHANGED <<posts_tbl, comments_tbl, posts_stg, comments_stg, platform,
                   raised, pre, ingested, runs>>

FinalizeSentiment(p) ==
    /\ pc[p] = "finalize_sentiment"
    /\ StageReturn(p, "finalize", FinalizeSentimentUpdate(ctx[p]), "sentiment_done")
    /\ UNCHANGED <<posts_tbl, comments_tbl, posts_stg, comments_stg, platform,
                   raised, pre, ingested, runs, logs>>

SentimentOutputKeys == {"num_reports", "status", "message"}

SentimentOutput(p) == [k \in SentimentOutputKeys \cap DOMAIN ctx[p] |-> ctx[p][k]]

(* the posts table as scraper runs can have left it: up to two instagram posts
   and possibly a facebook post *)
SentimentTables ==
    { SeqToBag(PostRows("instagram", ig)) (+) SeqToBag(PostRows("facebook", fb)) :
        ig \in IgMediaLists(2),
        fb \in {<<>>, << [id |-> "p1", message |-> "a", created_time |-> "t",
                          likes |-> [summary |-> [total_count |-> 1]],
                          comments |-> [data |-> <<>>, summary |-> [total_count |-> 0]],
                          shares |-> [count |-> 1]] >>} }

InitSentiment ==
    /\ posts_tbl \in SentimentTables
    /\ comments_tbl = EmptyBag
    /\ posts_stg = NoTable
    /\ comments_stg = NoTable
    /\ pc = [p \in Procs |-> "idle"]
    /\ platform = [p \in Procs |-> "instagram"]
    /\ ctx = [p \in Procs |-> EmptyDict]
    /\ trace = [p \in Procs |-> <<>>]
    /\ raised = [p \in Procs |-> "none"]
    /\ pre = [p \in Procs |-> EmptyStore]
    /\ ingested = {}
    /\ runs = 0
    /\ logs = EmptyLogs

NextSentiment ==
    \/ InitializeSentiment("A")
    \/ FetchCommentsFromDb("A")
    \/ AnalyzeAndInsertSentiment("A")
    \/ FinalizeSentiment("A")

SpecSentiment == InitSentiment /\ [][NextSentiment]_vars

----------------------------------------------------------------------------
(* The competitor analysis of competitor_analysis_agent.py: one node,
   comprehensive_analysis, which asks the language model for a report, extracts
   key insights from its lines and appends the report to
   social_media_competitor_analysis_logs. *)

(* A line of the report is its text, the length of the stripped line (width)
   and the keywords it contains (kws).  The texts are the spellings of two
   sentences: one starting with a letter, with and without a bullet, and one
   starting with a digit. *)
LineTexts == {"- video reach", "Video reach", "3x reach"}

LineWidths == {20, 21, 149, 150}

InsightKeywords ==
    <<"strength", "weakness", "opportunity", "threat", "advantage", "gap", "recommendation">>

LineKeywords == {{}, {"gap"}, {"strength", "weakness", "threat"}}

ReportLines == [text : LineTexts, width : LineWidths, kws : LineKeywords]

(* str.lower *)
Lower(s) == CASE s = "Video reach" -> "video reach" [] OTHER -> s

(* line.strip('- •*').strip() *)
StripBullets(s) == CASE s = "- video reach" -> "video reach" [] OTHER -> s

(* str.capitalize: the first character in upper case if it is a letter *)
Capitalize(s) == CASE s = "video reach" -> "Video reach" [] OTHER -> s

(* the test of line 159 for one keyword *)
IsCandidate(line, keyword) ==
    keyword \in line.kws /\ line.width > 20 /\ line.width < 150

RECURSIVE ScanKeywords(_, _, _)
(* the inner loop over insight_keywords, with its break at five insights *)
ScanKeywords(line, k, acc) ==
    IF k > Len(InsightKeywords) \/ Len(acc) >= 5
    THEN acc
    ELSE LET clean_line == StripBullets(Lower(line.text))
         IN  ScanKeywords(line, k + 1,
                 IF /\ IsCandidate(line, InsightKeywords[k])
                    /\ clean_line # ""
                    /\ clean_line \notin Range(acc)
                 THEN Append(acc, Capitalize(clean_line))
                 ELSE acc)

RECURSIVE ScanLines(_, _, _)
(* the outer loop over the lines, with its break at five insights *)
ScanLines(lines, i, acc) ==
    IF i > Len(lines) \/ Len(acc) >= 5
    THEN acc
    ELSE ScanLines(lines, i + 1, ScanKeywords(lines[i], 1, acc))

FallbackInsights(inp) ==
    << "Comprehensive social media analysis of " \o inp.competitor \o " completed",
       "Platform presence and content strategy evaluated for " \o inp.industry \o " industry",
       "Strategic recommendations developed for " \o inp.company \o "'s competitive positioning",
       "Engagement metrics and community building approaches analyzed",
       "Monitoring framework established for ongoing competitive intelligence" >>

ExceptionInsights(inp) ==
    << "Comprehensive competitor analysis of " \o inp.competitor \o " completed",
       "Social media strategy insights generated for " \o inp.company,
       "Actionable recommendations provided across multiple timeframes" >>

(* the extraction of lines 150-183 and the slice of line 199; a response
   without content makes report_content.lower() raise *)
KeyInsights(response, inp) ==
    IF response.is_none
    THEN Take(ExceptionInsights(inp), 5)
    ELSE LET found == ScanLines(response.lines, 1, <<>>)
         IN  Take(IF Len(found) < 3 THEN FallbackInsights(inp) ELSE found, 5)

AgentInputs == [company : {"acme"}, industry : {"retail"}, competitor : {"globex"}]

(* what the language model can answer: no content, or up to three lines *)
LlmResponses ==
    {[is_none |-> TRUE, lines |-> <<>>]} \cup
    {[is_none |-> FALSE, lines |-> l] : l \in SeqsUpTo(ReportLines, 3)}

AnalysisUpdate(response, inp) ==
    [ report           |-> response,
      analysis_summary |-> "Completed comprehensive social media competitive analysis of "
                           \o inp.competitor \o " in the " \o inp.industry
                           \o " industry for " \o inp.company,
      key_insights     |-> KeyInsights(response, inp) ]

(* graph.invoke(input): the call of the model can raise, which ends the run
   without output; insert_competitor_analysis_report appends the report or
   swallows its own failure *)
ComprehensiveAnalysis(p) ==
    /\ pc[p] = "idle"
    /\ \E inp \in AgentInputs :
          \/ /\ pc' = [pc EXCEPT ![p] = "analysis_raised"]
             /\ ctx' = [ctx EXCEPT ![p] = inp]
             /\ UNCHANGED <<trace, logs>>
          \/ \E response \in LlmResponses, inserted \in BOOLEAN :
                /\ ctx' = [ctx EXCEPT ![p] = Merge(inp, AnalysisUpdate(response, inp))]
                /\ trace' = [trace EXCEPT ![p] =
                               << [stage |-> "comprehensive_analysis", status |-> "returned"] >>]
                /\ logs' = IF inserted
                           THEN [logs EXCEPT !.competitor =
                                    Append(@, [company |-> inp.company, industry |-> inp.industry,
                                               competitor |-> inp.competitor, report |-> response])]
                           ELSE logs
                /\ pc' = [pc EXCEPT ![p] = "analysis_done"]
    /\ UNCHANGED <<posts_tbl, comments_tbl, posts_stg, comments_stg, platform,
                   raised, pre, ingested, runs>>

AgentOutputKeys == {"report", "analysis_summary", "key_insights"}

AgentOutput(p) == [k \in AgentOutputKeys \cap DOMAIN ctx[p] |-> ctx[p][k]]

InitInsights ==
    /\ posts_tbl = EmptyBag
    /\ comments_tbl = EmptyBag
    /\ posts_stg = NoTable
    /\ comments_stg = NoTable
    /\ pc = [p \in Procs |-> "idle"]
    /\ platform = [p \in Procs |-> "facebook"]
    /\ ctx = [p \in Procs |-> EmptyDict]
    /\ trace = [p \in Procs |-> <<>>]
    /\ raised = [p \in Procs |-> "none"]
    /\ pre = [p \in Procs |-> EmptyStore]
    /\ ingested = {}
    /\ runs = 0
    /\ logs = EmptyLogs

NextInsights == ComprehensiveAnalysis("A")

SpecInsights == InitInsights /\ [][NextInsights]_vars

----------------------------------------------------------------------------
(* Vocabulary of the properties *)

(* number of rows of the posts table, with multiplicity, whose natural key
   (platform, post_id) is k *)
PostRowsWithKey(tbl, k) ==
    BagCardinality([r \in {x \in DOMAIN tbl : <<x.platform, x.post_id>> = k} |-> tbl[r]])

(* number of rows of the comments table, with multiplicity, whose key
   (post_id, comment_id) is k *)
CommentRowsWithKey(tbl, k) ==
    BagCardinality([r \in {x \in DOMAIN tbl : <<x.post_id, x.comment_id>> = k} |-> tbl[r]])

(* a whole successful merge: to_sql, the delete transaction, the insert transaction *)
MergePosts(dest, df) ==
    InsertSelect(DeletePosts(dest, ToSqlReplace(df).rows), ToSqlReplace(df).rows)

MergeComments(dest, df) ==
    InsertSelect(DeleteComments(dest, ToSqlReplace(df).rows), ToSqlReplace(df).rows)

(* the nodes in the order of the graph's edges *)
StageOrder ==
    << "initialize", "fetch_posts", "process_posts", "process_comments", "save_to_db", "finalize" >>

(* how many nodes of the current run have returned when the run is at `at` *)
StagesReturned(at) ==
    CASE at = "idle" -> 0
      [] at = "fetch_posts" -> 1
      [] at = "process_posts" -> 2
      [] at = "process_comments" -> 3
      [] at = "finalize" -> 5
      [] at = "done" -> 6
      [] OTHER -> 4

(* the raw comments of a raw post, in the adapter's order *)
RawCommentsOf(plat, post) ==
    IF plat = "facebook" THEN FbRawComments(post) ELSE IgRawComments(post)

(* what the fetch stage left in the state dict *)
RawOf(p) == Get(ctx[p], "raw_posts_data", EmptyDict)

(* the raw field a Post column is read from, per platform *)
RawFieldOf(plat, col) ==
    IF plat = "facebook"
    THEN CASE col = "post_caption" -> "message"
           [] col = "total_likes" -> "likes"
           [] col = "total_comments" -> "comments"
           [] col = "total_shares" -> "shares"
    ELSE CASE col = "post_caption" -> "caption"
           [] col = "total_likes" -> "like_count"
           [] col = "total_comments" -> "comments_count"
           [] col = "total_shares" -> "shares"

(* the run of p is under way *)
Running(p) == pc[p] \notin {"idle", "done"}

(* the four tables of the store are left as they are by the step *)
StoreUnchanged == UNCHANGED <<posts_tbl, comments_tbl, posts_stg, comments_stg>>

(* the status a stage of the current run returned, "" if it has not run *)
StageStatus(p, stage) ==
    IF \E i \in DOMAIN trace[p] : trace[p][i].stage = stage
    THEN trace[p][CHOOSE i \in DOMAIN trace[p] : trace[p][i].stage = stage].status
    ELSE ""

StagesBeforeFinalize == {"initialize", "fetch_posts", "process_posts", "process_comments", "save_to_db"}

SomeStageFailed(p) == \E st \in StagesBeforeFinalize : StageStatus(p, st) = "error"

(* save_to_database has returned in the current run *)
SaveReturned(p) == pc[p] \in {"finalize", "done"}

(* save_to_database has been entered in the current run *)
SaveEntered(p) ==
    pc[p] \in {"posts_delete", "posts_insert", "save_comments", "comments_delete",
               "comments_insert", "finalize", "done"}

(* the posts block of save_to_database ran to its end in the current run *)
PostsMerged(p) ==
    /\ pc[p] \in {"save_comments", "comments_delete", "comments_insert"}
    /\ PostsDf(p) # <<>>

----------------------------------------------------------------------------
(* C1: merging the same row-set a second time, right after a successful save,
   leaves both destination tables as the first merge left them. *)
C1_MergeTwiceSameAsOnce ==
    \A p \in Procs :
        (pc[p] = "finalize" /\ StageStatus(p, "save_to_db") = "success") =>
            /\ MergePosts(posts_tbl, PostsDf(p)) = posts_tbl
            /\ MergeComments(comments_tbl, CommentsDf(p)) = comments_tbl

(* C2 as claimed: in every state the posts table holds exactly one row for each
   (platform, post_id) that has been ingested. *)
C2_ExactlyOneRowPerIngestedKey ==
    \A k \in ingested : PostRowsWithKey(posts_tbl, k) = 1

(* C2 as amended: in every state of runs made one after the other, the posts
   table holds at most one row for each (platform, post_id). *)
C2_AtMostOneRowPerKey ==
    \A k \in Platforms \X PostIds : PostRowsWithKey(posts_tbl, k) <= 1

(* a post that was in the table when save_to_database was entered has been
   merged again and is there once *)
C2_Witness ==
    \E p \in Procs :
        /\ PostsMerged(p)
        /\ \E r \in Range(PostsDf(p)) :
              /\ PostRowsWithKey(pre[p].posts, <<r.platform, r.post_id>>) = 1
              /\ PostRowsWithKey(posts_tbl, <<r.platform, r.post_id>>) = 1

(* C3: after the posts merge of a run, each merged key has exactly one row in
   the posts table and that row is the new row, in every column. *)
C3_ReplaceSemantics ==
    \A p \in Procs :
        PostsMerged(p) =>
            \A r \in Range(PostsDf(p)) :
                /\ PostRowsWithKey(posts_tbl, <<r.platform, r.post_id>>) = 1
                /\ CopiesIn(r, posts_tbl) = 1

(* the merged key was present before the call with other non-key values *)
C3_Witness ==
    \E p \in Procs :
        /\ PostsMerged(p)
        /\ \E r \in Range(PostsDf(p)) :
           \E old \in DOMAIN pre[p].posts :
              /\ old.platform = r.platform
              /\ old.post_id = r.post_id
              /\ old.post_caption # r.post_caption

(* C4: if the fetch stage failed, the transform stages still ran, posts_scraped
   is 0 and the output carries status error and the fetch failure's message. *)
C4_FetchFailureReported ==
    \A p \in Procs :
        (pc[p] = "done" /\ StageStatus(p, "fetch_posts") = "error") =>
            /\ StageStatus(p, "process_posts") # ""
            /\ StageStatus(p, "process_comments") # ""
            /\ Output(p)["posts_scraped"] = 0
            /\ Output(p)["status"] = "error"
            /\ Output(p)["message"] = FetchError.message

(* C5: the output status is error when some stage of the run returned error,
   and success when none did. *)
C5_StatusAuthoritative ==
    \A p \in Procs :
        pc[p] = "done" =>
            Output(p)["status"] = (IF SomeStageFailed(p) THEN "error" ELSE "success")

(* C6: when save_to_database has returned, neither staging table exists. *)
C6_NoStagingAfterSave ==
    \A p \in Procs :
        SaveReturned(p) => (~ posts_stg.exists /\ ~ comments_stg.exists)

(* C7: if the posts insert transaction failed after the delete committed, the
   posts table holds no row with a key of the merged row-set, neither a prior
   row nor a new one, and the output status is error. *)
C7_InsertFailureLeavesKeysAbsent ==
    \A p \in Procs :
        raised[p] = "posts_insert" =>
            /\ \A r \in Range(PostsDf(p)) :
                  /\ PostRowsWithKey(posts_tbl, <<r.platform, r.post_id>>) = 0
                  /\ ~ BagIn(r, posts_tbl)
            /\ pc[p] = "done" => Output(p)["status"] = "error"

(* the failed merge had deleted a prior row of its key *)
C7_Witness ==
    \E p \in Procs :
        /\ raised[p] = "posts_insert"
        /\ pc[p] = "done"
        /\ \E r \in Range(PostsDf(p)) :
              PostRowsWithKey(pre[p].posts, <<r.platform, r.post_id>>) = 1

(* C8: if writing the staging table or the delete transaction failed, the
   destination table of that merge is as it was when save_to_database was
   entered, and the output status is error. *)
C8_EarlyFailureLeavesDestination ==
    \A p \in Procs :
        /\ raised[p] \in {"posts_to_sql", "posts_delete"} => posts_tbl = pre[p].posts
        /\ raised[p] \in {"comments_to_sql", "comments_delete"} => comments_tbl = pre[p].comments
        /\ (raised[p] \in {"posts_to_sql", "posts_delete", "comments_to_sql", "comments_delete"}
              /\ pc[p] = "done") => Output(p)["status"] = "error"

(* a delete transaction failed that had a row to delete *)
C8_Witness ==
    \E p \in Procs :
        /\ raised[p] = "posts_delete"
        /\ pc[p] = "done"
        /\ \E r \in Range(PostsDf(p)) : \E old \in DOMAIN posts_tbl : PostsMatch(old, r)

(* C9 as claimed: with an empty row-set the save stage leaves that row-set's
   staging and destination tables alone and reports success with zero rows. *)
C9_EmptyRowSetNoopAndSuccess ==
    \A p \in Procs :
        SaveReturned(p) =>
            /\ PostsDf(p) = <<>> =>
                  /\ posts_tbl = pre[p].posts /\ posts_stg = pre[p].posts_stg
                  /\ StageStatus(p, "save_to_db") = "success"
                  /\ Get(ctx[p], "posts_scraped", 0) = 0
            /\ CommentsDf(p) = <<>> =>
                  /\ comments_tbl = pre[p].comments /\ comments_stg = pre[p].comments_stg
                  /\ StageStatus(p, "save_to_db") = "success"
                  /\ Get(ctx[p], "comments_scraped", 0) = 0

(* C9 as amended: with an empty row-set the save stage leaves that row-set's
   staging and destination tables alone and counts zero rows for it; it
   reports success when it had an engine and no step of the other row-set's
   merge raised. *)
C9_EmptyRowSetNoop ==
    \A p \in Procs :
        SaveEntered(p) =>
            /\ PostsDf(p) = <<>> =>
                  /\ posts_tbl = pre[p].posts /\ posts_stg = pre[p].posts_stg
                  /\ Get(ctx[p], "posts_scraped", 0) = 0
            /\ CommentsDf(p) = <<>> =>
                  /\ comments_tbl = pre[p].comments /\ comments_stg = pre[p].comments_stg
                  /\ Get(ctx[p], "comments_scraped", 0) = 0
            /\ ( /\ SaveReturned(p)
                 /\ PostsDf(p) = <<>> \/ CommentsDf(p) = <<>>
                 /\ ctx[p]["db_engine"] # NullStr
                 /\ raised[p] = "none" ) => StageStatus(p, "save_to_db") = "success"

(* an empty posts row-set beside a comments row-set that was merged into a
   posts table that holds rows *)
C9_Witness ==
    \E p \in Procs :
        /\ pc[p] = "done"
        /\ PostsDf(p) = <<>>
        /\ CommentsDf(p) # <<>>
        /\ posts_tbl # EmptyBag
        /\ Output(p)["status"] = "success"

(* C10: while an invocation is between staging and its insert commit, the
   staging table it deletes by and inserts from holds exactly the rows that
   invocation staged, whatever other invocations do. *)
C10_OwnStagingArea ==
    \A p \in Procs :
        /\ pc[p] \in {"posts_delete", "posts_insert"} => posts_stg = ToSqlReplace(PostsDf(p))
        /\ pc[p] \in {"comments_delete", "comments_insert"} =>
              comments_stg = ToSqlReplace(CommentsDf(p))

(* C11: when two concurrent merge calls with overlapping keys have both
   returned, the posts table holds exactly one row for every key of a row-set
   whose call reported success. *)
C11_ConcurrentMergesOneRowPerKey ==
    ( /\ \A p \in Procs : pc[p] = "done"
      /\ PostKeys(SeqToBag(PostsDf("A"))) \cap PostKeys(SeqToBag(PostsDf("B"))) # {} ) =>
        \A p \in Procs :
            StageStatus(p, "save_to_db") = "success" =>
                \A r \in Range(PostsDf(p)) :
                    PostRowsWithKey(posts_tbl, <<r.platform, r.post_id>>) = 1

(* C12: once the delete transaction of a posts merge has committed, every row
   that was in the posts table at entry and whose (platform, post_id) is not
   the key of a merged row is still there, as often as before. *)
C12_OtherKeysUntouched ==
    \A p \in Procs :
        ( /\ pc[p] \in {"posts_insert", "save_comments", "comments_delete",
                        "comments_insert", "finalize", "done"}
          /\ PostsDf(p) # <<>> ) =>
            \A r \in DOMAIN pre[p].posts :
                <<r.platform, r.post_id>> \notin PostKeys(SeqToBag(PostsDf(p))) =>
                    CopiesIn(r, posts_tbl) = CopiesIn(r, pre[p].posts)

(* C13: in every state of runs made one after the other, the comments table
   holds at most one row for each (post_id, comment_id), a null comment_id
   included (the rows carry no platform column). *)
C13_AtMostOneCommentPerKey ==
    \A pid \in PostIds, cid \in CommentIds \cup {NullStr} :
        CommentRowsWithKey(comments_tbl, <<pid, cid>>) <= 1

(* C14: whatever fails, a run that has started goes on to finalize and ends,
   and when it has ended every node has returned a status and the output
   record carries all six fields. *)
C14_RunAlwaysReachesFinalize ==
    /\ [](\A p \in Procs :
             pc[p] = "done" =>
                 /\ DOMAIN Output(p) = OutputKeys
                 /\ \A st \in StagesBeforeFinalize \cup {"finalize"} : StageStatus(p, st) # "")
    /\ \A p \in Procs : (pc[p] = "fetch_posts") ~> (pc[p] = "done")

(* a run in which every stage before finalize reported error has ended *)
C14_Witness ==
    \E p \in Procs :
        /\ pc[p] = "done"
        /\ \A st \in StagesBeforeFinalize : StageStatus(p, st) = "error"

(* C15: in every state the nodes that have returned in the current run are
   the first nodes of the graph's order, once each, as many as the position
   of the run says; a finished run has all six. *)
C15_StagesOnceInOrder ==
    \A p \in Procs :
        /\ Len(trace[p]) = StagesReturned(pc[p])
        /\ [i \in DOMAIN trace[p] |-> trace[p][i].stage] = SubSeq(StageOrder, 1, Len(trace[p]))

(* a finished run whose fetch and whose save reported error *)
C15_Witness ==
    \E p \in Procs :
        /\ pc[p] = "done"
        /\ StageStatus(p, "fetch_posts") = "error"
        /\ StageStatus(p, "save_to_db") = "error"

(* C16: once a stage has reported error, process_posts and process_comments
   emit no rows when they run after it, and save_to_database leaves both
   destination tables as they were at its entry. *)
C16_ErrorShortCircuits ==
    \A p \in Procs :
        /\ ( /\ StageStatus(p, "process_posts") # ""
             /\ \E st \in {"initialize", "fetch_posts"} : StageStatus(p, st) = "error" )
              => PostsDf(p) = <<>>
        /\ ( /\ StageStatus(p, "process_comments") # ""
             /\ \E st \in {"initialize", "fetch_posts", "process_posts"} :
                   StageStatus(p, st) = "error" )
              => CommentsDf(p) = <<>>
        /\ ( /\ SaveReturned(p)
             /\ \E st \in {"initialize", "fetch_posts", "process_posts", "process_comments"} :
                   StageStatus(p, st) = "error" )
              => (posts_tbl = pre[p].posts /\ comments_tbl = pre[p].comments)

(* C17: process_comments_data emits, for each raw post in turn, the first
   min(comment_limit, number of raw comments) comments of that post, in the
   adapter's order. *)
C17_CommentCap ==
    \A p \in Procs :
        StageStatus(p, "process_comments") = "comments_processed" =>
            LET batch == ctx[p]["raw_posts_data"]["data"]
                limit == ctx[p]["comment_limit"]
                df    == CommentsDf(p)
                expected ==
                    Flatten([i \in DOMAIN batch |->
                               LET raw == RawCommentsOf(platform[p], batch[i])
                               IN  [j \in 1..Min(limit, Len(raw)) |-> <<batch[i].id, raw[j].id>>]])
            IN  [k \in DOMAIN df |-> <<df[k].post_id, df[k].comment_id>>] = expected

(* C18: from a non-empty list of raw posts process_posts_data emits one Post
   row per raw post, in order, and counts them in posts_scraped, whichever
   optional fields the posts lack. *)
C18_OneRowPerRawPost ==
    \A p \in Procs :
        ( /\ StageStatus(p, "process_posts") # ""
          /\ "data" \in DOMAIN RawOf(p)
          /\ RawOf(p)["data"] # <<>> ) =>
            LET batch == RawOf(p)["data"]
                df    == PostsDf(p)
            IN  /\ Len(df) = Len(batch)
                /\ ctx[p]["posts_scraped"] = Len(batch)
                /\ \A i \in DOMAIN df : df[i].post_id = batch[i].id

(* C19: in every emitted Post row the caption is the empty string when the raw
   post has no caption, a count is 0 when the raw post has no such count, and
   neither the caption nor a count is a missing-value marker. *)
C19_DefaultsNotMissingMarkers ==
    \A p \in Procs :
        ( /\ StageStatus(p, "process_posts") # ""
          /\ "data" \in DOMAIN RawOf(p) ) =>
            LET batch == RawOf(p)["data"]
                df    == PostsDf(p)
            IN  \A i \in DOMAIN df :
                    /\ RawFieldOf(platform[p], "post_caption") \notin DOMAIN batch[i]
                          => df[i].post_caption = ""
                    /\ df[i].post_caption # NullStr
                    /\ \A col \in {"total_likes", "total_comments", "total_shares"} :
                          /\ RawFieldOf(platform[p], col) \notin DOMAIN batch[i] => df[i][col] = 0
                          /\ df[i][col] # NaN

(* C20 as claimed: when the raw fetch result is empty, has zero records or
   has no "data", process_posts_data and process_comments_data each return an
   empty row-set and status error. *)
C20_EmptyOrMalformedIsError ==
    \A p \in Procs :
        ("data" \notin DOMAIN RawOf(p) \/ RawOf(p)["data"] = <<>>) =>
            /\ StageStatus(p, "process_posts") # "" =>
                  (PostsDf(p) = <<>> /\ StageStatus(p, "process_posts") = "error")
            /\ StageStatus(p, "process_comments") # "" =>
                  (CommentsDf(p) = <<>> /\ StageStatus(p, "process_comments") = "error")

(* C20 as amended: in those cases both return an empty row-set; the status is
   error when the raw result is the empty mapping or has no "data", and
   success (process_posts_data) and comments_processed (process_comments_data)
   when it has "data" with zero records. *)
C20_EmptyOrMalformedNoRows ==
    \A p \in Procs :
        ("data" \notin DOMAIN RawOf(p) \/ RawOf(p)["data"] = <<>>) =>
            LET malformed == "data" \notin DOMAIN RawOf(p)
            IN  /\ StageStatus(p, "process_posts") # "" =>
                      /\ PostsDf(p) = <<>>
                      /\ StageStatus(p, "process_posts") = (IF malformed THEN "error" ELSE "success")
                /\ StageStatus(p, "process_comments") # "" =>
                      /\ CommentsDf(p) = <<>>
                      /\ Get(ctx[p], "comments_scraped", -1) = 0
                      /\ StageStatus(p, "process_comments") =
                            (IF malformed THEN "error" ELSE "comments_processed")

(* both transform stages have run on a fetch result with zero records *)
C20_Witness ==
    \E p \in Procs :
        /\ "data" \in DOMAIN RawOf(p)
        /\ RawOf(p)["data"] = <<>>
        /\ StageStatus(p, "process_posts") = "success"
        /\ StageStatus(p, "process_comments") = "comments_processed"

(* C21: with post_limit 2, comment_limit 2 and a fetch result of two posts of
   five raw comments each, a run whose save succeeded outputs posts_scraped 2
   and comments_scraped 4, and the destination then holds exactly the 2 post
   rows and the 4 comment rows of the output, one per key. *)
C21_EndToEndScenario ==
    \A p \in Procs :
        (pc[p] = "done" /\ Output(p)["status"] = "success") =>
            /\ Output(p)["posts_scraped"] = 2
            /\ Output(p)["comments_scraped"] = 4
            /\ posts_tbl = SeqToBag(Output(p)["posts_data"])
            /\ comments_tbl = SeqToBag(Output(p)["comments_data"])
            /\ BagCardinality(posts_tbl) = 2
            /\ BagCardinality(comments_tbl) = 4
            /\ \A r \in DOMAIN posts_tbl :
                  PostRowsWithKey(posts_tbl, <<r.platform, r.post_id>>) = 1
            /\ \A r \in DOMAIN comments_tbl :
                  CommentRowsWithKey(comments_tbl, <<r.post_id, r.comment_id>>) = 1

(* C22: when initialize could not connect, no step of the run changes a
   destination or staging table, save_to_database returns status error and
   so does the run. *)
C22_NoEngineNoWrites ==
    /\ [][\A p \in Procs :
             (Running(p) /\ StageStatus(p, "initialize") = "error" /\ pc'[p] # pc[p])
                 => StoreUnchanged]_vars
    /\ [](\A p \in Procs :
             (SaveReturned(p) /\ StageStatus(p, "initialize") = "error") =>
                 /\ StageStatus(p, "save_to_db") = "error"
                 /\ Store = pre[p]
                 /\ pc[p] = "done" => Output(p)["status"] = "error")

(* a run without engine that had posts rows to save has ended, beside a posts
   table that holds rows *)
C22_Witness ==
    \E p \in Procs :
        /\ pc[p] = "done"
        /\ StageStatus(p, "initialize") = "error"
        /\ PostsDf(p) # <<>>
        /\ posts_tbl # EmptyBag

(* C23: when the fetch stage failed, no step of the run changes a destination
   table, and the output has posts_scraped 0, comments_scraped 0 and empty
   posts_data and comments_data. *)
C23_FetchFailureZeroOutput ==
    /\ [][\A p \in Procs :
             (Running(p) /\ StageStatus(p, "fetch_posts") = "error" /\ pc'[p] # pc[p])
                 => UNCHANGED <<posts_tbl, comments_tbl>>]_vars
    /\ [](\A p \in Procs :
             (pc[p] = "done" /\ StageStatus(p, "fetch_posts") = "error") =>
                 /\ DOMAIN Output(p) = OutputKeys
                 /\ Output(p)["posts_scraped"] = 0
                 /\ Output(p)["comments_scraped"] = 0
                 /\ Output(p)["posts_data"] = <<>>
                 /\ Output(p)["comments_data"] = <<>>)

(* a run whose fetch failed has ended with a working database, beside a posts
   table that holds rows *)
C23_Witness ==
    \E p \in Procs :
        /\ pc[p] = "done"
        /\ StageStatus(p, "fetch_posts") = "error"
        /\ StageStatus(p, "initialize") = "initialized"
        /\ posts_tbl # EmptyBag

(* C24: no step of a run after initialize changes post_limit, comment_limit or
   access_token, and no step of save_to_database or finalize changes
   posts_scraped, comments_scraped, posts_data or comments_data (an unset one
   counting as its finalize default). *)
C24_UpdatesKeepOtherFields ==
    [][\A p \in Procs :
          Running(p) =>
              /\ \A k \in {"post_limit", "comment_limit", "access_token"} :
                    Get(ctx'[p], k, NullStr) = Get(ctx[p], k, NullStr)
              /\ StagesReturned(pc[p]) >= 4 =>
                    /\ \A k \in {"posts_scraped", "comments_scraped"} :
                          Get(ctx'[p], k, 0) = Get(ctx[p], k, 0)
                    /\ \A k \in {"posts_data", "comments_data"} :
                          Get(ctx'[p], k, <<>>) = Get(ctx[p], k, <<>>)]_vars

(* a run that counted a post and a comment has ended after a failed save *)
C24_Witness ==
    \E p \in Procs :
        /\ pc[p] = "done"
        /\ Output(p)["posts_scraped"] = 1
        /\ Output(p)["comments_scraped"] = 1
        /\ StageStatus(p, "save_to_db") = "error"

(* C25: with merges made one after the other, the staging table a merge
   deletes by and inserts from holds exactly the rows of its own row-set, and
   the posts table after the merge is the table at entry with the keys of that
   row-set deleted and its rows inserted, whatever staging table an earlier
   failed call left behind. *)
C25_StagingHoldsOwnRows ==
    \A p \in Procs :
        /\ pc[p] \in {"posts_delete", "posts_insert"} =>
              (posts_stg.exists /\ posts_stg.rows = SeqToBag(PostsDf(p)))
        /\ pc[p] \in {"comments_delete", "comments_insert"} =>
              (comments_stg.exists /\ comments_stg.rows = SeqToBag(CommentsDf(p)))
        /\ PostsMerged(p) =>
              posts_tbl = InsertSelect(DeletePosts(pre[p].posts, SeqToBag(PostsDf(p))),
                                       SeqToBag(PostsDf(p)))

(* a posts merge has committed in a run that found a staging table with other
   rows left behind *)
C25_Witness ==
    \E p \in Procs :
        /\ PostsMerged(p)
        /\ pre[p].posts_stg.exists
        /\ pre[p].posts_stg.rows # SeqToBag(PostsDf(p))

(* C26: when the sentiment pipeline's initialize or its fetch of the stored
   rows reported error, the output status is error and the output message is
   the message of that failure. *)
C26_SentimentFailureReported ==
    \A p \in Procs :
        ( /\ pc[p] = "sentiment_done"
          /\ \E st \in {"initialize", "fetch_comments"} : StageStatus(p, st) = "error" ) =>
            /\ SentimentOutput(p)["status"] = "error"
            /\ SentimentOutput(p)["message"] \in
                  {InitializeSentimentUpdate(FALSE).message, FetchCommentsError.message}

(* the distinct cleaned texts of the lines of a report that pass the test of
   line 159 for some keyword *)
CandidateTexts(lines) ==
    { StripBullets(Lower(lines[i].text)) :
        i \in {j \in DOMAIN lines : \E k \in DOMAIN InsightKeywords :
                                        IsCandidate(lines[j], InsightKeywords[k])} }

(* C27: key_insights has between 3 and 5 entries, and it is a fixed fallback
   list exactly when fewer than 3 candidate lines were found in the report or
   the extraction raised. *)
C27_InsightsCountAndFallback ==
    \A p \in Procs :
        pc[p] = "analysis_done" =>
            LET out == AgentOutput(p)
                inp == [k \in {"company", "industry", "competitor"} |-> ctx[p][k]]
            IN  /\ Len(out["key_insights"]) \in 3..5
                /\ ( out["key_insights"] \in {FallbackInsights(inp), ExceptionInsights(inp)}
                     <=> \/ out["report"].is_none
                         \/ Cardinality(CandidateTexts(out["report"].lines)) < 3 )

(* C28: the output status of a finished scraper run is success or error. *)
C28_OutputStatusSuccessOrError ==
    \A p \in Procs :
        pc[p] = "done" => Output(p)["status"] \in {"success", "error"}

C28_Witness ==
    \E p \in Procs :
        /\ pc[p] = "done"
        /\ StageStatus(p, "process_comments") = "comments_processed"
        /\ Output(p)["status"] = "success"

(* C29: in the output of a finished scraper run, posts_scraped is the number
   of entries of posts_data and comments_scraped is the number of entries of
   comments_data, whichever stages failed. *)
C29_CountsMatchData ==
    \A p \in Procs :
        pc[p] = "done" =>
            /\ Output(p)["posts_scraped"] = Len(Output(p)["posts_data"])
            /\ Output(p)["comments_scraped"] = Len(Output(p)["comments_data"])

C29_Witness ==
    \E p \in Procs :
        /\ pc[p] = "done"
        /\ StageStatus(p, "process_posts") = "error"
        /\ StageStatus(p, "process_comments") = "comments_processed"
        /\ Output(p)["posts_scraped"] = 0
        /\ Output(p)["comments_scraped"] = 1

(* C30: the insert into a destination and the drop of its staging table happen
   in one step or not at all: the staging table ceases to exist only in a step
   that adds its rows to the destination, the destination gains rows only in
   such a step, and a failed insert transaction leaves both as they were. *)
C30_InsertAndDropTogether ==
    /\ [][ /\ (posts_stg.exists /\ ~posts_stg'.exists)
              <=> (posts_stg.exists /\ posts_tbl' = InsertSelect(posts_tbl, posts_stg.rows)
                                    /\ posts_tbl' # posts_tbl)
           /\ (comments_stg.exists /\ ~comments_stg'.exists)
              <=> (comments_stg.exists /\ comments_tbl' = InsertSelect(comments_tbl, comments_stg.rows)
                                       /\ comments_tbl' # comments_tbl)
           /\ BagCardinality(posts_tbl') > BagCardinality(posts_tbl) => ~posts_stg'.exists
           /\ BagCardinality(comments_tbl') > BagCardinality(comments_tbl) => ~comments_stg'.exists
           /\ \A p \in Procs :
                 /\ (raised[p] # "posts_insert" /\ raised'[p] = "posts_insert")
                    => (posts_tbl' = posts_tbl /\ posts_stg' = posts_stg /\ posts_stg.exists)
                 /\ (raised[p] # "comments_insert" /\ raised'[p] = "comments_insert")
                    => (comments_tbl' = comments_tbl /\ comments_stg' = comments_stg
                        /\ comments_stg.exists) ]_vars

C30_Witness ==
    \E p \in Procs :
        /\ pc[p] = "done"
        /\ raised[p] = "comments_insert"
        /\ PostsDf(p) # <<>>
        /\ ~posts_stg.exists
        /\ comments_stg.exists

(* a step of the posts block of save_to_database raised in the current run *)
PostsMergeFailed(p) == raised[p] \in {"posts_to_sql", "posts_delete", "posts_insert"}

(* C31: when a step of the posts merge failed, save_to_database has returned
   without entering the comments block: the comments table and the comments
   staging table are as they were when save_to_database was entered, also when
   there are comments rows to save. *)
C31_PostsFailureSkipsComments ==
    \A p \in Procs :
        PostsMergeFailed(p) =>
            /\ SaveReturned(p)
            /\ comments_tbl = pre[p].comments
            /\ comments_stg = pre[p].comments_stg

(* the posts insert failed in a run that had comments rows to save *)
C31_Witness ==
    \E p \in Procs :
        /\ pc[p] = "done"
        /\ raised[p] = "posts_insert"
        /\ CommentsDf(p) # <<>>
        /\ ~comments_stg.exists

(* a step of the comments block of save_to_database raised in the current run *)
CommentsMergeFailed(p) ==
    raised[p] \in {"comments_to_sql", "comments_delete", "comments_insert"}

(* C32: when a step of the comments merge failed after the posts merge of the
   run committed, every posts row of the run is in the posts table, the posts
   staging table is dropped, and the output status is error. *)
C32_CommentsFailureKeepsPosts ==
    \A p \in Procs :
        (CommentsMergeFailed(p) /\ PostsDf(p) # <<>>) =>
            /\ \A r \in Range(PostsDf(p)) : BagIn(r, posts_tbl)
            /\ ~posts_stg.exists
            /\ StageStatus(p, "save_to_db") = "error"
            /\ pc[p] = "done" => Output(p)["status"] = "error"

(* the comments delete failed in a run whose posts merge added rows *)
C32_Witness ==
    \E p \in Procs :
        /\ pc[p] = "done"
        /\ raised[p] = "comments_delete"
        /\ PostsDf(p) # <<>>
        /\ posts_tbl # pre[p].posts
        /\ Output(p)["status"] = "error"

(* C33: the num_reports returned by analyze_and_insert_sentiment is the number
   of rows that step appended to social_media_sentiment_analysis_logs, also
   when it failed part-way, and finalize passes it on unchanged. *)
C33_NumReportsCountsAppendedRows ==
    [][\A p \in Procs :
          /\ (pc[p] = "analyze_and_insert" /\ pc'[p] = "finalize_sentiment")
                => ctx'[p]["num_reports"] = Len(logs'.sentiment) - Len(logs.sentiment)
          /\ (pc[p] = "finalize_sentiment" /\ pc'[p] = "sentiment_done")
                => /\ SentimentOutput(p)'["num_reports"] = ctx[p]["num_reports"]
                   /\ logs' = logs]_vars

(* C34: every row that process_posts_data emitted for a non-empty batch has
   user_id 1, agent_id 3 and the platform of its pipeline. *)
C34_PostRowConstants ==
    \A p \in Procs :
        StageStatus(p, "process_posts") = "posts_processed" =>
            \A r \in Range(PostsDf(p)) :
                /\ r.user_id = 1
                /\ r.agent_id = 3
                /\ r.platform = platform[p]

(* C35: the key_insights list of a finished competitor analysis holds no
   insight twice, also when a line of the report matches several keywords. *)
C35_NoDuplicateInsights ==
    \A p \in Procs :
        pc[p] = "analysis_done" =>
            LET insights == AgentOutput(p)["key_insights"]
            IN  \A i, j \in DOMAIN insights : insights[i] = insights[j] => i = j

====
